---------------------------- MODULE Spec2Model ----------------------------
(***************************************************************************)
(* Model of the cube_game Anchor program                                   *)
(* (src/solana-program/programs/cube_game/src/lib.rs).                     *)
(*                                                                         *)
(* Every instruction (initialize, remove_cube, set_price, withdraw) is one *)
(* atomic action: the account constraints of its #[derive(Accounts)]       *)
(* struct are evaluated first, then the handler body.  An instruction that *)
(* returns an error leaves every account as it was (the transaction is     *)
(* rolled back); the model records only its result in `last`.              *)
(*                                                                         *)
(* Names follow the source: the spec's "claim" is remove_cube, "reprice"   *)
(* is set_price, price_per_claim is price_per_cube, total_claims is        *)
(* total_cubes_removed, claims_made is cubes_removed, is_claimed is        *)
(* is_removed.  Rent paid for account creation is outside the scope of the *)
(* spec (storage allocation) and is not charged in the model.              *)
(***************************************************************************)
EXTENDS Integers, Sequences, FiniteSets, TLC

(* ------------------------------ bounds -------------------------------- *)

\* u64 values are kept modulo U64Modulus (a scaled-down 2^64).
U64Modulus == 6

\* Largest price and largest withdraw amount an instruction is given.
MaxPrice == 2
MaxAmount == 4

\* The ledger clock runs from 1 to MaxTime.
MaxTime == 2

\* Lamports alice starts with; bob starts with 1.
MaxStart == 3

(* ------------------------------ inputs -------------------------------- *)

Keys == {"alice", "bob"}
Treasury == "treasury"
NoKey == "default"

CubeIds == {"cube-1", "cube-2"}

Prices == 0..MaxPrice
Amounts == 0..MaxAmount

StartLamports == [k \in Keys |-> IF k = "alice" THEN MaxStart ELSE 1]

(* --------------------------- error results ---------------------------- *)

Ok == "Ok"
CubeAlreadyRemoved == "CubeAlreadyRemoved"     \* spec: AlreadyClaimed
ConstraintHasOne == "ConstraintHasOne"         \* spec: Unauthorized
AccountInUse == "AccountAlreadyInUse"          \* spec: DuplicateInitialization
AccountNotInitialized == "AccountNotInitialized"
InsufficientFunds == "InsufficientFunds"
ArithmeticOverflow == "ArithmeticOverflow"
Panicked == "ProgramFailedToComplete"          \* overflow panic in the handler

VARIABLES
    game_state,       \* GameState account (singleton PDA "game_state")
    cube_record,      \* CubeRecord accounts, by cube id
    player_stats,     \* PlayerStats accounts, by player key
    lamports,         \* lamport balance of every signer and of the treasury PDA
    events,           \* CubeRemovedEvent log, in emission order
    clock,            \* Clock::get()?.unix_timestamp
    overflow_checks,  \* build profile: TRUE = overflow panics, FALSE = wraps
    last,             \* the most recent instruction and its result
    committed_claims  \* number of remove_cube instructions that returned Ok

vars == <<game_state, cube_record, player_stats, lamports, events, clock,
          overflow_checks, last, committed_claims>>

observed == <<committed_claims>>

accounts == <<game_state, cube_record, player_stats, lamports, events>>

(* ------------------------------ records ------------------------------- *)

GameStateDefault ==
    [initialized |-> FALSE, authority |-> NoKey, price_per_cube |-> 0,
     total_cubes_removed |-> 0]

CubeRecordDefault ==
    [is_removed |-> FALSE, removed_by |-> NoKey, removed_at |-> 0, cube_id |-> ""]

PlayerStatsDefault == [player |-> NoKey, cubes_removed |-> 0]

(* ----------------------------- arithmetic ----------------------------- *)

\* u64 `a + b` / `a - b` as compiled: with overflow checks the operation
\* panics (ok = FALSE), without them the result wraps.
AddU64(a, b) ==
    IF a + b < U64Modulus THEN [ok |-> TRUE, val |-> a + b]
    ELSE IF overflow_checks THEN [ok |-> FALSE, val |-> a]
    ELSE [ok |-> TRUE, val |-> (a + b) % U64Modulus]

SubU64(a, b) ==
    IF a >= b THEN [ok |-> TRUE, val |-> a - b]
    ELSE IF overflow_checks THEN [ok |-> FALSE, val |-> a]
    ELSE [ok |-> TRUE, val |-> (a - b) % U64Modulus]

\* system_instruction::transfer invoked through the system program: fails
\* when the payer holds less than `amount`, or when the credit overflows.
\* (TransferNoFundsCheck is the variant that debits without the balance check.)
TransferNoFundsCheck(from, to, amount) ==
    [result |-> Ok,
     lamports |-> [lamports EXCEPT ![from] = @ - amount, ![to] = @ + amount]]

Transfer(from, to, amount) ==
    IF lamports[from] < amount
    THEN [result |-> InsufficientFunds, lamports |-> lamports]
    ELSE IF lamports[to] + amount >= U64Modulus
    THEN [result |-> ArithmeticOverflow, lamports |-> lamports]
    ELSE [result |-> Ok,
          lamports |-> [lamports EXCEPT ![from] = @ - amount, ![to] = @ + amount]]

(* ------------------------------- Init --------------------------------- *)

Init ==
    /\ game_state = GameStateDefault
    /\ cube_record = [c \in CubeIds |-> CubeRecordDefault]
    /\ player_stats = [k \in Keys |-> PlayerStatsDefault]
    /\ lamports = [a \in Keys \cup {Treasury} |->
                      IF a = Treasury THEN 0 ELSE StartLamports[a]]
    /\ events = <<>>
    /\ clock = 1
    /\ overflow_checks \in BOOLEAN
    /\ last = [op |-> "none", signer |-> NoKey, arg |-> 0, result |-> Ok]
    /\ committed_claims = 0

\* An instruction that returned an error: nothing is committed.
Abort(op, signer, arg, err) ==
    /\ last' = [op |-> op, signer |-> signer, arg |-> arg, result |-> err]
    /\ UNCHANGED <<accounts, clock, overflow_checks>>

Commit(op, signer, arg) ==
    /\ last' = [op |-> op, signer |-> signer, arg |-> arg, result |-> Ok]
    /\ UNCHANGED <<clock, overflow_checks>>

(* ------------------------- account constraints ----------------------- *)

\* game_state: Account<'info, GameState> in RemoveCube, SetPrice and Withdraw:
\* loading fails unless initialize has created the account.
\* (GameStateUnchecked is the variant that accepts a missing account.)
GameStateUnchecked == TRUE

GameStateLoaded == game_state.initialized

(* ----------------------------- initialize ----------------------------- *)

\* #[account(init, ...)] game_state: creation fails when the account exists.
\* (InitIfNeeded is the variant that accepts an existing account.)
InitIfNeeded == TRUE

InitConstraint == ~game_state.initialized

\* game.authority = ctx.accounts.authority.key()
\* (InitAuthorityUnset is the variant that leaves the field at its default.)
InitAuthorityUnset(signer) == NoKey

InitAuthority(signer) == signer

Initialize(signer, price_per_cube) ==
    IF ~InitConstraint
    THEN /\ Abort("initialize", signer, price_per_cube, AccountInUse)
         /\ UNCHANGED observed
    ELSE /\ UNCHANGED observed
         /\ game_state' = [initialized |-> TRUE,
                           authority |-> InitAuthority(signer),
                           price_per_cube |-> price_per_cube,
                           total_cubes_removed |-> 0]
         /\ UNCHANGED <<cube_record, player_stats, lamports, events>>
         /\ Commit("initialize", signer, price_per_cube)

(* ------------------------------ set_price ----------------------------- *)

\* SetPrice: has_one = authority, with authority: Signer.
\* (SetPriceAnySigner is the variant without the has_one constraint.)
SetPriceAnySigner(signer) == TRUE

SetPriceHasOne(signer) == game_state.authority = signer

\* game.price_per_cube = new_price
\* (GameAfterSetPriceResetTotal is the variant that rewrites the whole record.)
GameAfterSetPriceResetTotal(new_price) ==
    [game_state EXCEPT !.price_per_cube = new_price, !.total_cubes_removed = 0]

GameAfterSetPrice(new_price) ==
    [game_state EXCEPT !.price_per_cube = new_price]

SetPrice(signer, new_price) ==
    IF ~GameStateLoaded
    THEN /\ Abort("set_price", signer, new_price, AccountNotInitialized)
         /\ UNCHANGED observed
    ELSE IF ~SetPriceHasOne(signer)
    THEN /\ Abort("set_price", signer, new_price, ConstraintHasOne)
         /\ UNCHANGED observed
    ELSE /\ UNCHANGED observed
         /\ game_state' = GameAfterSetPrice(new_price)
         /\ UNCHANGED <<cube_record, player_stats, lamports, events>>
         /\ Commit("set_price", signer, new_price)

(* ------------------------------ withdraw ------------------------------ *)

\* Withdraw: has_one = authority, with authority: Signer.
\* (WithdrawAnySigner is the variant without the has_one constraint.)
WithdrawAnySigner(signer) == TRUE

WithdrawHasOne(signer) == game_state.authority = signer

Withdraw(signer, amount) ==
    IF ~GameStateLoaded
    THEN /\ Abort("withdraw", signer, amount, AccountNotInitialized)
         /\ UNCHANGED observed
    ELSE IF ~WithdrawHasOne(signer)
    THEN /\ Abort("withdraw", signer, amount, ConstraintHasOne)
         /\ UNCHANGED observed
    ELSE LET debit == SubU64(lamports[Treasury], amount)
             credit == AddU64(lamports[signer], amount)
         IN  IF ~debit.ok \/ ~credit.ok
             THEN /\ Abort("withdraw", signer, amount, Panicked)
                  /\ UNCHANGED observed
             ELSE /\ lamports' = [lamports EXCEPT ![Treasury] = debit.val,
                                                  ![signer] = credit.val]
                  /\ UNCHANGED <<game_state, cube_record, player_stats, events>>
                  /\ Commit("withdraw", signer, amount)
                  /\ UNCHANGED observed

(* ----------------------------- remove_cube ---------------------------- *)

\* require!(!cube_record.is_removed, CubeGameError::CubeAlreadyRemoved)
\* (NotRemovedUnchecked is the variant without the require!.)
NotRemovedUnchecked(cube_id) == TRUE

NotRemoved(cube_id) == ~cube_record[cube_id].is_removed

\* The order of the handler's two checks: the require! comes before the
\* transfer is invoked, and the first error is the one returned.
\* (FirstErrorPayFirst is the variant that invokes the transfer first.)
FirstErrorPayFirst(cube_id, paid) ==
    IF paid.result # Ok THEN paid.result
    ELSE IF ~NotRemoved(cube_id) THEN CubeAlreadyRemoved
    ELSE Ok

FirstError(cube_id, paid) ==
    IF ~NotRemoved(cube_id) THEN CubeAlreadyRemoved
    ELSE paid.result

\* The amount of the transfer instruction: game.price_per_cube.
\* (ClaimPriceWithFee is the variant that charges one lamport more.)
ClaimPriceWithFee == game_state.price_per_cube + 1

ClaimPrice == game_state.price_per_cube

\* "Mark cube as removed": the four fields written to cube_record.
\* (MarkRemovedNoFlag is the variant that forgets is_removed = true.)
MarkRemovedNoFlag(player, cube_id) ==
    [is_removed |-> FALSE, removed_by |-> player, removed_at |-> clock,
     cube_id |-> cube_id]

MarkRemoved(player, cube_id) ==
    [is_removed |-> TRUE, removed_by |-> player, removed_at |-> clock,
     cube_id |-> cube_id]

\* game.total_cubes_removed += 1
\* (TotalNotCounted is the variant that forgets the increment.)
TotalNotCounted == [ok |-> TRUE, val |-> game_state.total_cubes_removed]

TotalAfterRemove == AddU64(game_state.total_cubes_removed, 1)

\* player_stats.cubes_removed += 1
\* (StatsNotCounted forgets the increment; StatsRestarted starts every
\* claim from a fresh record.)
StatsNotCounted(player) ==
    [ok |-> TRUE, val |-> player_stats[player].cubes_removed]

StatsRestarted(player) == [ok |-> TRUE, val |-> 1]

StatsAfterRemove(player) == AddU64(player_stats[player].cubes_removed, 1)

\* emit!(CubeRemovedEvent { cube_id, player, total_removed, timestamp })
\* (CubeRemovedEventStaleTotal carries the total before the increment.)
CubeRemovedEventStaleTotal(cube_id, player, total_removed) ==
    [cube_id |-> cube_id, player |-> player,
     total_removed |-> game_state.total_cubes_removed, timestamp |-> clock]

CubeRemovedEvent(cube_id, player, total_removed) ==
    [cube_id |-> cube_id, player |-> player,
     total_removed |-> total_removed, timestamp |-> clock]

\* The handler's outcome: its result and the accounts it would commit.
RemoveCubeOutcome(player, cube_id) ==
    LET paid == Transfer(player, Treasury, ClaimPrice)
        total == TotalAfterRemove
        mine == StatsAfterRemove(player)
        same == [result |-> Ok, game_state |-> game_state,
                 cube_record |-> cube_record, player_stats |-> player_stats,
                 lamports |-> lamports, events |-> events]
        failed == FirstError(cube_id, paid)
    IN  IF ~GameStateLoaded
        THEN [same EXCEPT !.result = AccountNotInitialized]
        ELSE IF failed # Ok
        THEN [same EXCEPT !.result = failed]
        ELSE IF ~total.ok \/ ~mine.ok
        THEN [same EXCEPT !.result = Panicked]
        ELSE [result |-> Ok,
              game_state |-> [game_state EXCEPT !.total_cubes_removed = total.val],
              cube_record |-> [cube_record EXCEPT ![cube_id] =
                                  MarkRemoved(player, cube_id)],
              player_stats |-> [player_stats EXCEPT ![player] =
                                  [player |-> player, cubes_removed |-> mine.val]],
              lamports |-> paid.lamports,
              events |-> Append(events,
                                CubeRemovedEvent(cube_id, player, total.val))]

RemoveCube(player, cube_id) ==
    LET out == RemoveCubeOutcome(player, cube_id)
    IN  /\ game_state' = out.game_state
        /\ cube_record' = out.cube_record
        /\ player_stats' = out.player_stats
        /\ lamports' = out.lamports
        /\ events' = out.events
        /\ last' = [op |-> "remove_cube", signer |-> player, arg |-> cube_id,
                    result |-> out.result]
        /\ committed_claims' = committed_claims + (IF out.result = Ok THEN 1 ELSE 0)
        /\ UNCHANGED <<clock, overflow_checks>>

(* ------------------------------- clock -------------------------------- *)

Tick ==
    /\ clock < MaxTime
    /\ clock' = clock + 1
    /\ UNCHANGED <<accounts, overflow_checks, last, observed>>

Next ==
    \/ \E k \in Keys, p \in Prices : Initialize(k, p)
    \/ \E k \in Keys, c \in CubeIds : RemoveCube(k, c)
    \/ \E k \in Keys, p \in Prices : SetPrice(k, p)
    \/ \E k \in Keys, a \in Amounts : Withdraw(k, a)
    \/ Tick

Spec == Init /\ [][Next]_vars

(* ------------------------------ properties ---------------------------- *)

\* A step is instruction I by signer k exactly when `last` names I and k
\* afterwards and the action I holds of the step; the first conjuncts are
\* implied by the action and only make the test cheap.
InitializeStep(k, p) ==
    /\ last'.op = "initialize" /\ last'.signer = k /\ last'.arg = p
    /\ Initialize(k, p)

RemoveCubeStep(k, c) ==
    /\ last'.op = "remove_cube" /\ last'.signer = k /\ last'.arg = c
    /\ RemoveCube(k, c)

SetPriceStep(k, p) ==
    /\ last'.op = "set_price" /\ last'.signer = k /\ last'.arg = p
    /\ SetPrice(k, p)

WithdrawStep(k, a) ==
    /\ last'.op = "withdraw" /\ last'.signer = k /\ last'.arg = a
    /\ Withdraw(k, a)


TreasuryLamports == lamports[Treasury]

RemovedCubes == {c \in CubeIds : cube_record[c].is_removed}

\* C1: once a cube has been removed, every later remove_cube on the same id,
\* by the same or by another player, returns CubeAlreadyRemoved and changes
\* no account: nobody is charged a second time, and total_cubes_removed,
\* cubes_removed and the count of committed claims stay as they are.
C1_SecondClaimRejected ==
    [][\A k \in Keys, c \in CubeIds :
          (cube_record[c].is_removed /\ RemoveCubeStep(k, c))
              => /\ last'.result = CubeAlreadyRemoved
                 /\ UNCHANGED accounts
                 /\ UNCHANGED committed_claims]_vars

\* A player retries a claim they already won, in the checked build, with the
\* treasury holding exactly the one price paid.
C1_Witness ==
    /\ last.op = "remove_cube"
    /\ last.result = CubeAlreadyRemoved
    /\ cube_record[last.arg].removed_by = last.signer
    /\ game_state.price_per_cube > 0
    /\ TreasuryLamports = game_state.price_per_cube
    /\ game_state.total_cubes_removed = 1

\* C2: total_cubes_removed equals the number of remove_cube instructions
\* that committed, whatever else ran in between, and it never decreases.
C2_TotalCountsCommitted ==
    /\ [](game_state.total_cubes_removed = committed_claims)
    /\ [][game_state'.total_cubes_removed >= game_state.total_cubes_removed]_vars

\* Two claims committed, and the latest claim attempt failed.
C2_Witness ==
    /\ committed_claims = 2
    /\ last.op = "remove_cube"
    /\ last.result # Ok

\* C3: with the game state initialized, set_price signed by a key other than
\* game_state.authority returns ConstraintHasOne and changes no account;
\* signed by the authority it returns Ok and stores the new price.
C3_SetPriceAuthorityOnly ==
    [][\A k \in Keys, p \in Prices :
          (game_state.initialized /\ SetPriceStep(k, p))
              => IF k # game_state.authority
                 THEN /\ last'.result = ConstraintHasOne
                      /\ UNCHANGED accounts
                 ELSE /\ last'.result = Ok
                      /\ game_state'.price_per_cube = p]_vars

\* A non-authority asked for a price different from the stored one.
C3_Witness ==
    /\ last.op = "set_price"
    /\ last.result = ConstraintHasOne
    /\ last.signer # game_state.authority
    /\ last.arg # game_state.price_per_cube

\* C4: a withdraw signed by the authority for more than the treasury holds
\* fails and leaves the treasury's and the authority's lamports unchanged
\* (the subtraction never wraps).
C4_OverdrawFails ==
    [][\A k \in Keys, a \in Amounts :
          (/\ game_state.initialized
           /\ k = game_state.authority
           /\ a > TreasuryLamports
           /\ WithdrawStep(k, a))
              => /\ last'.result # Ok
                 /\ UNCHANGED lamports]_vars

\* C5: with the game state initialized, a withdraw signed by a key other
\* than game_state.authority returns ConstraintHasOne for every amount and
\* changes no account; and the treasury's lamports decrease only in a step
\* that is a withdraw signed by the authority and returning Ok.
C5_WithdrawAuthorityOnly ==
    [][/\ \A k \in Keys, a \in Amounts :
             (game_state.initialized /\ k # game_state.authority /\ WithdrawStep(k, a))
                 => /\ last'.result = ConstraintHasOne
                    /\ UNCHANGED accounts
       /\ (lamports'[Treasury] < lamports[Treasury])
             => /\ last'.op = "withdraw"
                /\ last'.result = Ok
                /\ last'.signer = game_state.authority]_vars

\* A non-authority asked for an amount the treasury could have paid.
C5_Witness ==
    /\ overflow_checks
    /\ last.op = "withdraw"
    /\ last.result = ConstraintHasOne
    /\ last.signer # game_state.authority
    /\ last.arg > 0
    /\ last.arg <= TreasuryLamports

\* C6: a remove_cube that returns Ok moves exactly the price_per_cube stored
\* in game_state at that moment from the player to the treasury; and the
\* stored price is the argument of the latest initialize or set_price that
\* returned Ok (it changes in no other step).
C6_ChargesCurrentPrice ==
    [][/\ \A k \in Keys, c \in CubeIds :
             (RemoveCubeStep(k, c) /\ last'.result = Ok)
                 => /\ lamports'[k] = lamports[k] - game_state.price_per_cube
                    /\ lamports'[Treasury] =
                          lamports[Treasury] + game_state.price_per_cube
                    /\ \A o \in Keys \ {k} : lamports'[o] = lamports[o]
       /\ \A k \in Keys, p \in Prices :
             ((InitializeStep(k, p) \/ SetPriceStep(k, p)) /\ last'.result = Ok)
                 => game_state'.price_per_cube = p
       /\ (game_state'.price_per_cube # game_state.price_per_cube)
             => /\ last'.op \in {"initialize", "set_price"}
                /\ last'.result = Ok
                /\ last'.arg = game_state'.price_per_cube]_vars

\* In the checked build bob (who starts with 1 lamport) claimed first and
\* alice second, and the treasury holds 3 lamports: bob could pay at most 1
\* and alice at most MaxPrice = 2, so the first claim was charged 1 and,
\* after a set_price to 2, the second was charged 2.
C6_Witness ==
    /\ overflow_checks
    /\ Len(events) = 2
    /\ events[1].player = "bob"
    /\ events[2].player = "alice"
    /\ last.op = "remove_cube"
    /\ last.result = Ok
    /\ game_state.price_per_cube = 2
    /\ TreasuryLamports = 3

\* C7: a remove_cube on a cube not yet removed, by a player holding less
\* than price_per_cube, returns InsufficientFunds and commits nothing: the
\* cube stays not removed (so it is still open to a later claim), the
\* counters, the lamports and the event log are unchanged.
C7_UnderfundedClaimAborts ==
    [][\A k \in Keys, c \in CubeIds :
          (/\ game_state.initialized
           /\ ~cube_record[c].is_removed
           /\ lamports[k] < game_state.price_per_cube
           /\ RemoveCubeStep(k, c))
              => /\ last'.result = InsufficientFunds
                 /\ UNCHANGED accounts
                 /\ UNCHANGED committed_claims
                 /\ ~cube_record'[c].is_removed]_vars

\* bob could not pay for a cube that nobody has removed.
C7_Witness ==
    /\ overflow_checks
    /\ last.op = "remove_cube"
    /\ last.result = InsufficientFunds
    /\ ~cube_record[last.arg].is_removed
    /\ lamports[last.signer] < game_state.price_per_cube
    /\ \E k \in Keys : lamports[k] >= game_state.price_per_cube

\* C8: no cube is removed before initialization; after that a cube record
\* with is_removed = TRUE is never written again: is_removed is never reset
\* and removed_by, removed_at and cube_id keep their values in every step,
\* failed claims by other players included.
C8_RemovedIsFinal ==
    /\ [](~game_state.initialized => RemovedCubes = {})
    /\ [][\A c \in CubeIds :
             cube_record[c].is_removed => cube_record'[c] = cube_record[c]]_vars

\* Another player's claim on a removed cube failed at a later ledger time.
C8_Witness ==
    /\ last.op = "remove_cube"
    /\ last.result = CubeAlreadyRemoved
    /\ cube_record[last.arg].is_removed
    /\ cube_record[last.arg].removed_by # last.signer
    /\ cube_record[last.arg].removed_at < clock
    /\ cube_record[last.arg].cube_id = last.arg

\* C9: the first initialize creates game_state with the signer as authority,
\* the given price and total_cubes_removed = 0; every later initialize, by
\* any signer with any price, returns AccountAlreadyInUse and changes no
\* account; the authority, once set, is never replaced.
C9_InitializeOnce ==
    [][/\ \A k \in Keys, p \in Prices :
             InitializeStep(k, p)
                 => IF game_state.initialized
                    THEN /\ last'.result = AccountInUse
                         /\ UNCHANGED accounts
                    ELSE /\ last'.result = Ok
                         /\ game_state' =
                               [initialized |-> TRUE, authority |-> k,
                                price_per_cube |-> p, total_cubes_removed |-> 0]
       /\ game_state.initialized
             => /\ game_state'.initialized
                /\ game_state'.authority = game_state.authority]_vars

\* A second initialize by another signer with another price failed after a
\* cube had been removed.
C9_Witness ==
    /\ last.op = "initialize"
    /\ last.result = AccountInUse
    /\ last.signer # game_state.authority
    /\ last.arg # game_state.price_per_cube
    /\ game_state.total_cubes_removed > 0

\* The events emitted for cube c.
EventsOf(c) == {i \in 1..Len(events) : events[i].cube_id = c}

ScenarioState(a, price, claimed, treasury) ==
    /\ game_state = [initialized |-> TRUE, authority |-> a,
                     price_per_cube |-> price, total_cubes_removed |-> claimed]
    /\ lamports = [k \in Keys \cup {Treasury} |->
                      IF k = Treasury THEN treasury
                      ELSE IF k = "alice" THEN StartLamports[k] - treasury
                      ELSE StartLamports[k]]
    /\ RemovedCubes = (IF claimed = 0 THEN {}
                       ELSE IF claimed = 1 THEN {"cube-1"} ELSE CubeIds)
    /\ \A c \in RemovedCubes : cube_record[c].removed_by = "alice"
    /\ player_stats["alice"].cubes_removed = claimed
    /\ player_stats["bob"].cubes_removed = 0
    /\ Len(events) = claimed

\* C11: the end-to-end scenario, step by step, for either key as authority
\* a (the other key n is the non-authority): from the initial state,
\* initialize(2) by a; remove_cube("cube-1") by alice commits with the
\* treasury at 2; bob's remove_cube("cube-1") returns CubeAlreadyRemoved
\* with no change; set_price(1) by n returns ConstraintHasOne; set_price(1)
\* by a commits; remove_cube("cube-2") by alice is charged 1, treasury 3;
\* withdraw(4) by a fails with the treasury still 3; withdraw(3) by a
\* commits and leaves the treasury at 0.
C11_Scenario ==
    [][\A a \in Keys : \A n \in Keys \ {a} :
        /\ (~game_state.initialized /\ InitializeStep(a, 2))
              => (last'.result = Ok /\ ScenarioState(a, 2, 0, 0)')
        /\ (ScenarioState(a, 2, 0, 0) /\ RemoveCubeStep("alice", "cube-1"))
              => (last'.result = Ok /\ ScenarioState(a, 2, 1, 2)')
        /\ (ScenarioState(a, 2, 1, 2) /\ RemoveCubeStep("bob", "cube-1"))
              => (last'.result = CubeAlreadyRemoved /\ UNCHANGED accounts)
        /\ (ScenarioState(a, 2, 1, 2) /\ SetPriceStep(n, 1))
              => (last'.result = ConstraintHasOne /\ UNCHANGED accounts)
        /\ (ScenarioState(a, 2, 1, 2) /\ SetPriceStep(a, 1))
              => (last'.result = Ok /\ ScenarioState(a, 1, 1, 2)')
        /\ (ScenarioState(a, 1, 1, 2) /\ RemoveCubeStep("alice", "cube-2"))
              => (last'.result = Ok /\ ScenarioState(a, 1, 2, 3)')
        /\ (ScenarioState(a, 1, 2, 3) /\ WithdrawStep(a, 4))
              => (last'.result # Ok /\ UNCHANGED accounts)
        /\ (ScenarioState(a, 1, 2, 3) /\ WithdrawStep(a, 3))
              => /\ last'.result = Ok
                 /\ lamports'[Treasury] = 0
                 /\ lamports'[a] = lamports[a] + 3]_vars

\* C12: a remove_cube of cube c by player k that returns Ok, at price p,
\* does exactly this: k's lamports go down by p and the treasury's up by p;
\* c's record becomes removed, by k, at the current clock, with cube_id c;
\* total_cubes_removed and k's cubes_removed go up by exactly 1 and k's
\* stats name k; every other cube record, every other player's stats and
\* lamports, price_per_cube and authority stay as they were; one event is
\* appended.
C12_ClaimEffect ==
    [][\A k \in Keys, c \in CubeIds :
          (RemoveCubeStep(k, c) /\ last'.result = Ok)
              => /\ lamports' =
                       [lamports EXCEPT ![k] = @ - game_state.price_per_cube,
                                        ![Treasury] = @ + game_state.price_per_cube]
                 /\ cube_record' =
                       [cube_record EXCEPT ![c] =
                           [is_removed |-> TRUE, removed_by |-> k,
                            removed_at |-> clock, cube_id |-> c]]
                 /\ game_state' =
                       [game_state EXCEPT !.total_cubes_removed = @ + 1]
                 /\ player_stats' =
                       [player_stats EXCEPT ![k] =
                           [player |-> k, cubes_removed |-> @.cubes_removed + 1]]
                 /\ Len(events') = Len(events) + 1]_vars

\* A paid claim at clock 2 by a player who had none, the other cube being
\* held by the other player.
C12_Witness ==
    /\ last.op = "remove_cube"
    /\ last.result = Ok
    /\ game_state.price_per_cube > 0
    /\ cube_record[last.arg].removed_at = 2
    /\ player_stats[last.signer].cubes_removed = 1
    /\ game_state.total_cubes_removed = 2
    /\ \E c \in CubeIds : /\ cube_record[c].is_removed
                          /\ cube_record[c].removed_by # last.signer

\* C13: a withdraw of amount a by the authority that returns Ok, with a not
\* above the treasury's lamports, takes exactly a from the treasury and adds
\* exactly a to the authority (their sum is conserved), changes no game
\* state, cube record, player stats or event, and leaves the treasury at 0
\* when a is its whole balance.
C13_WithdrawEffect ==
    [][\A k \in Keys, a \in Amounts :
          (WithdrawStep(k, a) /\ last'.result = Ok /\ a <= lamports[Treasury])
              => /\ lamports'[Treasury] = lamports[Treasury] - a
                 /\ lamports'[k] = lamports[k] + a
                 /\ lamports'[Treasury] + lamports'[k]
                       = lamports[Treasury] + lamports[k]
                 /\ \A o \in Keys \ {k} : lamports'[o] = lamports[o]
                 /\ UNCHANGED <<game_state, cube_record, player_stats, events>>
                 /\ (a = lamports[Treasury] => lamports'[Treasury] = 0)]_vars

\* C14: the event log grows by exactly one CubeRemovedEvent in every
\* remove_cube step that returns Ok and is unchanged in every other step
\* (failed claims, initialize, set_price, withdraw); the event carries the
\* cube id, the player, the total after the increment and the clock, so the
\* k-th event carries total_removed = k and no cube id occurs twice.
C14_OneEventPerClaim ==
    /\ [](/\ Len(events) = committed_claims
          /\ \A i \in 1..Len(events) :
                /\ events[i].total_removed = i
                /\ events[i].player = cube_record[events[i].cube_id].removed_by
                /\ events[i].timestamp = cube_record[events[i].cube_id].removed_at
                /\ \A j \in 1..Len(events) :
                      events[j].cube_id = events[i].cube_id => j = i)
    /\ [][/\ \A k \in Keys, c \in CubeIds :
                RemoveCubeStep(k, c)
                   => IF last'.result = Ok
                      THEN events' =
                             Append(events,
                                    [cube_id |-> c, player |-> k,
                                     total_removed |->
                                        game_state.total_cubes_removed + 1,
                                     timestamp |-> clock])
                      ELSE events' = events
          /\ (~ \E k \in Keys, c \in CubeIds : RemoveCubeStep(k, c))
                => events' = events]_vars

\* Two events are in the log and the latest instruction, a failed claim,
\* added none.
C14_Witness ==
    /\ Len(events) = 2
    /\ events[1].player # events[2].player
    /\ last.op = "remove_cube"
    /\ last.result = CubeAlreadyRemoved

\* Cubes recorded as removed by player p.
RemovedBy(p) ==
    {c \in CubeIds : cube_record[c].is_removed /\ cube_record[c].removed_by = p}

\* C15: for every player p, cubes_removed of p's PlayerStats equals the
\* number of cube records removed by p; the record is still the default one
\* while p has no claim and names p afterwards; cubes_removed never
\* decreases, and a further claim adds one to the same record.
C15_StatsMatchRecords ==
    /\ [](\A p \in Keys :
            /\ player_stats[p].cubes_removed = Cardinality(RemovedBy(p))
            /\ IF RemovedBy(p) = {}
               THEN player_stats[p] = PlayerStatsDefault
               ELSE player_stats[p].player = p)
    /\ [][\A p \in Keys :
            /\ player_stats'[p].cubes_removed >= player_stats[p].cubes_removed
            /\ player_stats'[p].cubes_removed <= player_stats[p].cubes_removed + 1]_vars

\* alice holds both cubes, bob none.
C15_Witness ==
    /\ player_stats["alice"] = [player |-> "alice", cubes_removed |-> 2]
    /\ player_stats["bob"] = PlayerStatsDefault
    /\ RemovedBy("alice") = CubeIds

\* C16: on a removed cube the require! is evaluated before the transfer is
\* invoked: the claim returns CubeAlreadyRemoved whatever the player holds,
\* also when that is less than price_per_cube, and no lamports move.
C16_CheckBeforePayment ==
    [][\A k \in Keys, c \in CubeIds :
          (game_state.initialized /\ cube_record[c].is_removed /\ RemoveCubeStep(k, c))
              => /\ last'.result = CubeAlreadyRemoved
                 /\ lamports' = lamports]_vars

\* The rejected player could not have paid the price.
C16_Witness ==
    /\ overflow_checks
    /\ last.op = "remove_cube"
    /\ last.result = CubeAlreadyRemoved
    /\ lamports[last.signer] < game_state.price_per_cube

\* C17: the authority stored by initialize is the signer of that initialize
\* and no later step changes it (claims, set_price, withdraw, a failed
\* second initialize); the only signer whose set_price or withdraw returns
\* Ok is that authority.
C17_AuthorityIsInitializer ==
    [][/\ \A k \in Keys, p \in Prices :
             (InitializeStep(k, p) /\ last'.result = Ok) => game_state'.authority = k
       /\ game_state.initialized => game_state'.authority = game_state.authority
       /\ \A k \in Keys :
             (/\ last'.result = Ok
              /\ \/ \E p \in Prices : SetPriceStep(k, p)
                 \/ \E a \in Amounts : WithdrawStep(k, a))
                => /\ k = game_state.authority
                   /\ k = game_state'.authority]_vars

\* bob initialized; later alice's withdraw was refused although she holds a
\* cube and the treasury could pay.
C17_Witness ==
    /\ game_state.authority = "bob"
    /\ last.op = "withdraw"
    /\ last.signer = "alice"
    /\ last.result = ConstraintHasOne
    /\ RemovedBy("alice") # {}
    /\ last.arg <= TreasuryLamports

\* C18: a set_price that returns Ok changes price_per_cube and nothing else
\* (total_cubes_removed, authority, cube records, player stats, lamports and
\* events are unchanged); every value in range is accepted, zero included;
\* and at price 0 a claim on a cube not yet removed commits with no lamports
\* moved while total_cubes_removed and the player's cubes_removed go up by 1.
C18_SetPriceFrame ==
    [][/\ \A k \in Keys, p \in Prices :
             (game_state.initialized /\ k = game_state.authority /\ SetPriceStep(k, p))
                 => /\ last'.result = Ok
                    /\ game_state' = [game_state EXCEPT !.price_per_cube = p]
                    /\ UNCHANGED <<cube_record, player_stats, lamports, events>>
       /\ \A k \in Keys, c \in CubeIds :
             (/\ game_state.initialized
              /\ game_state.price_per_cube = 0
              /\ ~cube_record[c].is_removed
              /\ RemoveCubeStep(k, c))
                 => /\ last'.result = Ok
                    /\ lamports' = lamports
                    /\ cube_record'[c].is_removed
                    /\ game_state'.total_cubes_removed
                          = game_state.total_cubes_removed + 1
                    /\ player_stats'[k].cubes_removed
                          = player_stats[k].cubes_removed + 1]_vars

\* After a paid claim the price was set to 0 and a second claim committed
\* for free: one cube is counted for each player and the treasury holds only
\* the first payment.
C18_Witness ==
    /\ overflow_checks
    /\ last.op = "remove_cube"
    /\ last.result = Ok
    /\ game_state.price_per_cube = 0
    /\ game_state.total_cubes_removed = 2
    /\ TreasuryLamports = 2
    /\ lamports[last.signer] = StartLamports[last.signer]

\* C19: before initialize has created game_state, remove_cube, set_price
\* and withdraw all fail (AccountNotInitialized) and change no account: no
\* cube is removed and no lamports move.
C19_NeedsGameState ==
    /\ [](~game_state.initialized =>
             /\ RemovedCubes = {}
             /\ events = <<>>
             /\ lamports = [a \in Keys \cup {Treasury} |->
                               IF a = Treasury THEN 0 ELSE StartLamports[a]])
    /\ [][\A k \in Keys :
            /\ \A c \in CubeIds :
                  (~game_state.initialized /\ RemoveCubeStep(k, c))
                     => (last'.result = AccountNotInitialized
                           /\ UNCHANGED accounts)
            /\ \A p \in Prices :
                  (~game_state.initialized /\ SetPriceStep(k, p))
                     => (last'.result = AccountNotInitialized
                           /\ UNCHANGED accounts)
            /\ \A a \in Amounts :
                  (~game_state.initialized /\ WithdrawStep(k, a))
                     => (last'.result = AccountNotInitialized
                           /\ UNCHANGED accounts)]_vars

\* A claim was refused while the game state did not exist.
C19_Witness ==
    /\ ~game_state.initialized
    /\ last.op = "remove_cube"
    /\ last.result = AccountNotInitialized

\* All lamports held by the signers and the treasury.
RECURSIVE SumLamports(_)
SumLamports(S) ==
    IF S = {} THEN 0
    ELSE LET a == CHOOSE x \in S : TRUE
         IN  lamports[a] + SumLamports(S \ {a})

TotalLamports == SumLamports(Keys \cup {Treasury})

\* C20: starting from an empty treasury, every committed claim adds its
\* price to the treasury, every committed withdraw takes its amount from
\* it, and no other step changes it (so it equals the prices charged minus
\* the amounts withdrawn); it is never negative; and the lamports of the
\* signers and the treasury together are constant.
C20_Conservation ==
    /\ [](/\ lamports[Treasury] >= 0
          /\ TotalLamports = StartLamports["alice"] + StartLamports["bob"])
    /\ [][/\ \A k \in Keys, c \in CubeIds :
                RemoveCubeStep(k, c)
                   => lamports'[Treasury] - lamports[Treasury] =
                         (IF last'.result = Ok
                          THEN game_state.price_per_cube ELSE 0)
          /\ \A k \in Keys, a \in Amounts :
                WithdrawStep(k, a)
                   => lamports'[Treasury] - lamports[Treasury] =
                         (IF last'.result = Ok THEN 0 - a ELSE 0)
          /\ (~ \/ \E k \in Keys, c \in CubeIds : RemoveCubeStep(k, c)
                \/ \E k \in Keys, a \in Amounts : WithdrawStep(k, a))
                => lamports'[Treasury] = lamports[Treasury]]_vars

=============================================================================
